---- MODULE Spec2Model ----
(***************************************************************************)
(* The crypto dashboard of src/src/components/CryptoDashboard.tsx (the     *)
(* spreadsheet version, "sheets") and of src/unnamed/part_000 (the webhook *)
(* version, "webhook"): the query driven by useQuery, the normalization of *)
(* a response into CryptoData records, and the views computed at render.   *)
(*                                                                         *)
(* Strings are sequences of one-character strings.  Numbers are integers   *)
(* counting hundredths (parseFloat("1.5") is 150), with NaN apart.         *)
(***************************************************************************)
EXTENDS Integers, Sequences, FiniteSets, TLC

(***************************************************************************)
(* Bounds of the model.                                                    *)
(***************************************************************************)
\* rows of a response, in the dashboard specification
MaxRows == 2
\* records of a held array, in the specification of the views
MaxViewLen == 4
\* rows of a response with a price that is no number, in the specification of the views
MaxSortRows == 3
\* rows of a response, in the specification of the normalization
MaxNormRows == 2
\* rows of a response, in the specification of the price alerts
MaxAlertRows == 3

(***************************************************************************)
(* Strings.                                                                *)
(***************************************************************************)
Chars(s) == [i \in 1..Len(s) |-> SubSeq(s, i, i)]

Lower == Chars("abcdefghijklmnopqrstuvwxyz")
Upper == Chars("ABCDEFGHIJKLMNOPQRSTUVWXYZ")
Digits == Chars("0123456789")
\* the characters below the letters, in the order a locale comparison ranks them
Marks == Chars(" _-,:./$0123456789")
\* \s of a regular expression, and what trim() removes
WhiteSpace == {" ", "\t", "\r", "\n"}

Range(s) == {s[i] : i \in 1..Len(s)}
IndexOf(s, c) == CHOOSE i \in 1..Len(s) : s[i] = c
Drop(s, n) == SubSeq(s, n + 1, Len(s))
Take(s, n) == SubSeq(s, 1, IF n < Len(s) THEN n ELSE Len(s))

\* String.prototype.toLowerCase
ToLowerChar(c) == IF c \in Range(Upper) THEN Lower[IndexOf(Upper, c)] ELSE c
ToLowerCase(s) == [i \in 1..Len(s) |-> ToLowerChar(s[i])]

RECURSIVE TrimStart(_)
TrimStart(s) == IF s # <<>> /\ s[1] \in WhiteSpace THEN TrimStart(Tail(s)) ELSE s
RECURSIVE TrimEnd(_)
TrimEnd(s) ==
  IF s # <<>> /\ s[Len(s)] \in WhiteSpace THEN TrimEnd(Take(s, Len(s) - 1)) ELSE s
\* String.prototype.trim
Trim(s) == TrimEnd(TrimStart(s))

\* s.replace(/[...]/g, ''): every character of the class removed
RECURSIVE RemoveAll(_, _)
RemoveAll(s, class) ==
  IF s = <<>> THEN <<>>
  ELSE IF s[1] \in class THEN RemoveAll(Tail(s), class)
  ELSE <<s[1]>> \o RemoveAll(Tail(s), class)

\* s.replace(/\s+/g, '-'): every maximal run of whitespace becomes one hyphen
RECURSIVE HyphenateSpaces(_)
HyphenateSpaces(s) ==
  IF s = <<>> THEN <<>>
  ELSE IF s[1] \in WhiteSpace THEN <<"-">> \o HyphenateSpaces(TrimStart(s))
  ELSE <<s[1]>> \o HyphenateSpaces(Tail(s))

\* s.split(sep) for a one-character separator: a sequence of strings
RECURSIVE Split(_, _)
Split(s, sep) ==
  IF \A i \in 1..Len(s) : s[i] # sep THEN <<s>>
  ELSE LET p == CHOOSE i \in 1..Len(s) : s[i] = sep /\ \A j \in 1..(i - 1) : s[j] # sep
       IN  <<Take(s, p - 1)>> \o Split(Drop(s, p), sep)

\* the longest prefix of decimal digits
RECURSIVE TakeDigits(_)
TakeDigits(s) ==
  IF s # <<>> /\ s[1] \in Range(Digits) THEN <<s[1]>> \o TakeDigits(Tail(s)) ELSE <<>>

DigitVal(c) == IndexOf(Digits, c) - 1
RECURSIVE DigitsToInt(_)
DigitsToInt(ds) ==
  IF ds = <<>> THEN 0 ELSE DigitsToInt(Take(ds, Len(ds) - 1)) * 10 + DigitVal(ds[Len(ds)])

\* the decimal numeral of a natural number, as in a template literal
RECURSIVE IntToStr(_)
IntToStr(n) == IF n < 10 THEN <<Digits[n + 1]>> ELSE IntToStr(n \div 10) \o <<Digits[(n % 10) + 1]>>

(***************************************************************************)
(* JavaScript values: undefined, numbers (NaN among them) and strings.     *)
(***************************************************************************)
Undef == [t |-> "undefined", n |-> 0, s |-> <<>>]
NaN == [t |-> "nan", n |-> 0, s |-> <<>>]
NumV(n) == [t |-> "number", n |-> n, s |-> <<>>]
StrV(s) == [t |-> "string", n |-> 0, s |-> s]
\* the number k (NumV counts hundredths)
Whole(k) == NumV(k * 100)

IsNum(v) == v.t = "number"
\* ToBoolean: undefined, 0, NaN and '' are falsy
Truthy(v) ==
  CASE v.t = "undefined" -> FALSE
    [] v.t = "nan" -> FALSE
    [] v.t = "number" -> v.n # 0
    [] OTHER -> v.s # <<>>
\* a || b
Or(a, b) == IF Truthy(a) THEN a ELSE b

\* parseFloat of a string: leading whitespace skipped, then the longest prefix that
\* is a decimal literal (sign, digits, fraction); NaN when there is none.  Fraction
\* digits after the second are dropped; exponents and Infinity are not modelled.
ParseFloatStr(s) ==
  LET t == TrimStart(s)
      signed == t # <<>> /\ t[1] \in {"+", "-"}
      neg == t # <<>> /\ t[1] = "-"
      u == IF signed THEN Tail(t) ELSE t
      ip == TakeDigits(u)
      rest == Drop(u, Len(ip))
      fp == IF rest # <<>> /\ rest[1] = "." THEN TakeDigits(Tail(rest)) ELSE <<>>
      f2 == Take(fp \o <<"0", "0">>, 2)
      mag == DigitsToInt(ip) * 100 + DigitsToInt(f2)
  IN  IF ip = <<>> /\ fp = <<>> THEN NaN ELSE NumV(IF neg THEN 0 - mag ELSE mag)
\* parseFloat(v): the argument is converted to a string first
ParseFloat(v) ==
  CASE v.t = "string" -> ParseFloatStr(v.s)
    [] v.t = "number" -> v
    [] OTHER -> NaN

\* parseInt of a string, radix 10: whitespace, sign, digits; NaN when there are none
ParseIntStr(s) ==
  LET t == TrimStart(s)
      signed == t # <<>> /\ t[1] \in {"+", "-"}
      neg == t # <<>> /\ t[1] = "-"
      ip == TakeDigits(IF signed THEN Tail(t) ELSE t)
  IN  IF ip = <<>> THEN NaN
      ELSE NumV(IF neg THEN 0 - DigitsToInt(ip) * 100 ELSE DigitsToInt(ip) * 100)
\* parseInt(v): a number is truncated toward zero
ParseInt(v) ==
  CASE v.t = "string" -> ParseIntStr(v.s)
    [] v.t = "number" ->
         NumV(IF v.n < 0 THEN 0 - (((0 - v.n) \div 100) * 100) ELSE (v.n \div 100) * 100)
    [] OTHER -> NaN

\* a - b of two numbers
Minus(a, b) == IF IsNum(a) /\ IsNum(b) THEN NumV(a.n - b.n) ELSE NaN
\* a > b and a < b: false when either is NaN
Gt(a, b) == IsNum(a) /\ IsNum(b) /\ a.n > b.n
Lt(a, b) == IsNum(a) /\ IsNum(b) /\ a.n < b.n

(***************************************************************************)
(* Rows of a response and CryptoData records.  A row is a function from    *)
(* its field names to values; an absent field reads as undefined.          *)
(***************************************************************************)
Get(item, k) == IF Chars(k) \in DOMAIN item THEN item[Chars(k)] ELSE Undef
\* the row whose fields are those of the record r
Obj(r) == [k \in {Chars(f) : f \in DOMAIN r} |-> r[CHOOSE f \in DOMAIN r : Chars(f) = k]]

\* interface CryptoData
CryptoFields ==
  {"id", "name", "symbol", "price", "change24h", "marketCap", "volume24h", "logo", "rank",
   "lastUpdated"}

\* new Date().toISOString(): the reading of the clock
NowISO == Chars("2025-01-01T00:00:00.000Z")
\* the one-character strings of the currency signs (U+20BF, U+039E, U+25CE)
BtcSign == <<"U+20BF">>
XiSign == <<"U+039E">>
SolSign == <<"U+25CE">>

\* marketCap and volume24h of the mock records exceed the 32-bit integers of TLC:
\* they are written in units of 10^6 (they are only compared with one another)
MockRecords ==
  << [id |-> StrV(Chars("bitcoin")), name |-> StrV(Chars("Bitcoin")),
      symbol |-> StrV(Chars("BTC")), price |-> NumV(6854234), change24h |-> NumV(234),
      marketCap |-> NumV(1347000), volume24h |-> NumV(28500), logo |-> StrV(BtcSign),
      rank |-> Whole(1), lastUpdated |-> StrV(NowISO)],
     [id |-> StrV(Chars("ethereum")), name |-> StrV(Chars("Ethereum")),
      symbol |-> StrV(Chars("ETH")), price |-> NumV(342167), change24h |-> NumV(0 - 123),
      marketCap |-> NumV(411000), volume24h |-> NumV(15200), logo |-> StrV(XiSign),
      rank |-> Whole(2), lastUpdated |-> StrV(NowISO)],
     [id |-> StrV(Chars("solana")), name |-> StrV(Chars("Solana")),
      symbol |-> StrV(Chars("SOL")), price |-> NumV(18742), change24h |-> NumV(876),
      marketCap |-> NumV(88000), volume24h |-> NumV(3200), logo |-> StrV(SolSign),
      rank |-> Whole(3), lastUpdated |-> StrV(NowISO)] >>

(***************************************************************************)
(* parseCSV and the normalization of the spreadsheet version.              *)
(***************************************************************************)
\* line.split(',').map(v => v.trim().replace(/"/g, ''))
Cells(line) ==
  LET parts == Split(line, ",")
  IN  [i \in 1..Len(parts) |-> RemoveAll(Trim(parts[i]), {"\""})]

\* a value that stays undefined when the line has fewer values than headers
ValueAt_undefined(values, index) ==
  IF index <= Len(values) THEN StrV(values[index]) ELSE Undef
\* values[index] || '', index counted from 1
ValueAt(values, index) ==
  IF index <= Len(values) /\ values[index] # <<>> THEN StrV(values[index]) ELSE StrV(<<>>)

parseCSV(csvText) ==
  LET lines == Split(Trim(csvText), "\n")
      headers == Cells(lines[1])
      LastIndex(h) ==
        CHOOSE i \in 1..Len(headers) :
          headers[i] = h /\ \A j \in (i + 1)..Len(headers) : headers[j] # h
      ObjOf(line) ==
        LET values == Cells(line)
        IN  [h \in Range(headers) |-> ValueAt(values, LastIndex(h))]
  IN  IF Len(lines) < 2 THEN <<>>
      ELSE [i \in 1..(Len(lines) - 1) |-> ObjOf(lines[i + 1])]

\* logoUrl.match(/\/images\/(\d+)\//): the digits of the leftmost match, or <<>>
ImagesPrefix == Chars("/images/")
MatchImagesId(url) ==
  LET Hit(p) ==
        /\ p + Len(ImagesPrefix) - 1 <= Len(url)
        /\ SubSeq(url, p, p + Len(ImagesPrefix) - 1) = ImagesPrefix
        /\ LET after == Drop(url, p + Len(ImagesPrefix) - 1)
               ds == TakeDigits(after)
           IN  ds # <<>> /\ Len(ds) < Len(after) /\ after[Len(ds) + 1] = "/"
      hits == {p \in 1..Len(url) : Hit(p)}
  IN  IF hits = {} THEN <<>>
      ELSE LET p == CHOOSE q \in hits : \A r \in hits : q <= r
           IN  TakeDigits(Drop(url, p + Len(ImagesPrefix) - 1))

\* a rank that falls back to the 0-based position
extractNumericId_zeroBased(logoUrl, index) ==
  IF ~Truthy(logoUrl) THEN Whole(index)
  ELSE IF MatchImagesId(logoUrl.s) # <<>> THEN ParseIntStr(MatchImagesId(logoUrl.s))
  ELSE Whole(index)

extractNumericId(logoUrl, index) ==
  IF ~Truthy(logoUrl) THEN Whole(index + 1)
  ELSE IF MatchImagesId(logoUrl.s) # <<>> THEN ParseIntStr(MatchImagesId(logoUrl.s))
  ELSE Whole(index + 1)

\* v?.replace(/[,$]/g, '')
StripMoney(v) == IF v.t = "string" THEN StrV(RemoveAll(v.s, {",", "$"})) ELSE Undef
\* v?.toLowerCase().replace(/\s+/g, '-')
Slug(v) == IF v.t = "string" THEN StrV(HyphenateSpaces(ToLowerCase(v.s))) ELSE Undef
\* v?.toLowerCase()
LowerOf(v) == IF v.t = "string" THEN StrV(ToLowerCase(v.s)) ELSE Undef
\* an id that counts the rows from 1
CryptoIndexId_oneBased(index) == StrV(Chars("crypto-") \o IntToStr(index + 1))
\* `crypto-${index}`
CryptoIndexId(index) == StrV(Chars("crypto-") \o IntToStr(index))

\* the record of the row item at the 0-based position index
SheetRecord(item, index) ==
  [id |-> Or(Get(item, "coin_id"), Or(Slug(Get(item, "name")), CryptoIndexId(index))),
   name |-> Or(Get(item, "name"), StrV(Chars("Unknown"))),
   symbol |-> Or(Get(item, "symbol"), StrV(Chars("N/A"))),
   price |-> ParseFloat(Or(StripMoney(Get(item, "last_price")), Whole(0))),
   change24h |-> ParseFloat(Or(Get(item, "last_change_pct"), Whole(0))),
   marketCap |-> ParseFloat(Or(StripMoney(Get(item, "market_cap")), Whole(0))),
   volume24h |-> ParseFloat(Or(StripMoney(Get(item, "volume")), Whole(0))),
   logo |-> Or(Get(item, "logo_url"), StrV(BtcSign)),
   rank |-> extractNumericId(Get(item, "logo_url"), index),
   lastUpdated |-> Or(Get(item, "last_alert_timestamp"), StrV(NowISO))]

\* fetchCryptoData of the spreadsheet version, on the text of an ok response
fetchSheets(csvText) ==
  LET data == parseCSV(csvText)
  IN  [i \in 1..Len(data) |-> SheetRecord(data[i], i - 1)]

(***************************************************************************)
(* The normalization of the webhook version.  A JSON response is an array  *)
(* of rows, or an object that may carry the rows under data or coins.      *)
(***************************************************************************)
\* Array.isArray(data) ? data : data.data || data.coins || [data]
cryptoArray(json) ==
  IF json.isArray THEN json.rows
  ELSE IF json.data # <<>> THEN json.data[1]
  ELSE IF json.coins # <<>> THEN json.coins[1]
  ELSE <<json.self>>

\* v?.charAt(0)
CharAt0(v) == IF v.t = "string" THEN StrV(Take(v.s, 1)) ELSE Undef

HookRecord(item, index) ==
  [id |-> Or(Get(item, "id"), Or(LowerOf(Get(item, "name")), CryptoIndexId(index))),
   name |-> Or(Get(item, "name"), Or(Get(item, "coin_name"), StrV(Chars("Unknown")))),
   symbol |-> Or(Get(item, "symbol"), Or(Get(item, "coin_symbol"), StrV(Chars("N/A")))),
   price |->
     ParseFloat(Or(Get(item, "price"),
                   Or(Get(item, "current_price"), Or(Get(item, "price_usd"), Whole(0))))),
   change24h |->
     ParseFloat(Or(Get(item, "change24h"),
                   Or(Get(item, "price_change_percentage_24h"),
                      Or(Get(item, "change_24h"), Whole(0))))),
   marketCap |->
     ParseFloat(Or(Get(item, "market_cap"),
                   Or(Get(item, "marketCap"), Or(Get(item, "market_cap_usd"), Whole(0))))),
   volume24h |->
     ParseFloat(Or(Get(item, "volume24h"),
                   Or(Get(item, "total_volume"), Or(Get(item, "volume_24h"), Whole(0))))),
   logo |->
     Or(Get(item, "logo"),
        Or(Get(item, "image"), Or(CharAt0(Get(item, "symbol")), StrV(BtcSign)))),
   rank |-> ParseInt(Or(Get(item, "rank"), Or(Get(item, "market_cap_rank"), Whole(index + 1)))),
   lastUpdated |->
     Or(Get(item, "last_updated"), Or(Get(item, "updated_at"), StrV(NowISO)))]

\* fetchCryptoData of the webhook version, on the JSON of an ok response
fetchHook(json) ==
  LET rows == cryptoArray(json)
  IN  [i \in 1..Len(rows) |-> HookRecord(rows[i], i - 1)]

(***************************************************************************)
(* Sorting and the views computed at render.                               *)
(***************************************************************************)
\* the rank of a character in a locale comparison, case apart: the marks and
\* digits come before the letters
CharRank ==
  [c \in Range(Marks) \cup Range(Lower) \cup Range(Upper) |->
     IF c \in Range(Marks) THEN IndexOf(Marks, c)
     ELSE IF c \in Range(Lower) THEN Len(Marks) + IndexOf(Lower, c)
     ELSE Len(Marks) + IndexOf(Upper, c)]
Primary(c) == IF c \in DOMAIN CharRank THEN CharRank[c] ELSE 0
PrimaryKey(s) == <<>> \o [i \in 1..Len(s) |-> Primary(s[i])]
IsLowerChar(c) == c \in DOMAIN CharRank /\ CharRank[c] > Len(Marks) /\ ToLowerChar(c) = c

\* the comparison of two strings whose primary ranks are ka and kb
CompareKeyed(a, b, ka, kb) ==
  LET n == IF Len(a) < Len(b) THEN Len(a) ELSE Len(b)
  IN  IF \E i \in 1..n : ka[i] # kb[i]
      THEN LET i == CHOOSE i \in 1..n : ka[i] # kb[i] /\ \A j \in 1..(i - 1) : ka[j] = kb[j]
           IN  IF ka[i] < kb[i] THEN 0 - 1 ELSE 1
      ELSE IF Len(a) # Len(b) THEN (IF Len(a) < Len(b) THEN 0 - 1 ELSE 1)
      ELSE IF \E i \in 1..n : a[i] # b[i]
      THEN LET i == CHOOSE i \in 1..n : a[i] # b[i] /\ \A j \in 1..(i - 1) : a[j] = b[j]
           IN  IF IsLowerChar(a[i]) THEN 0 - 1 ELSE 1
      ELSE 0
\* a.localeCompare(b): by the letters first, the shorter string first among prefixes;
\* among strings equal up to case, lower case first at the first difference
localeCompare(a, b) ==
  CHOOSE r \in {CompareKeyed(a, b, ka, kb) : ka \in {PrimaryKey(a)}, kb \in {PrimaryKey(b)}} :
    TRUE

SortKeys == {"price", "name", "marketCap", "volume24h"}

\* the comparator of the displayed list, (a, b) => ... switch (sortBy)
compareBy(key, a, b) ==
  CASE key = "name" -> Whole(localeCompare(a.name.s, b.name.s))
    [] key = "marketCap" -> Minus(b.marketCap, a.marketCap)
    [] key = "volume24h" -> Minus(b.volume24h, a.volume24h)
    [] OTHER -> Minus(b.price, a.price)
\* (a, b) => b.change24h - a.change24h and (a, b) => a.change24h - b.change24h
compareGain(key, a, b) ==
  IF key = "gain" THEN Minus(b.change24h, a.change24h) ELSE Minus(a.change24h, b.change24h)

\* the comparator that a sort by key is given
compare(key, a, b) ==
  IF key \in {"gain", "loss"} THEN compareGain(key, a, b) ELSE compareBy(key, a, b)

\* what Array.prototype.sort reads of a comparator's result: NaN counts as 0
Sign(v) == IF ~IsNum(v) \/ v.n = 0 THEN 0 ELSE IF v.n < 0 THEN 0 - 1 ELSE 1

\* what the comparator returns on every pair of elements of arr, as sort reads it
SignMatrix(key, arr) ==
  <<>> \o [i \in 1..Len(arr) |->
             <<>> \o [j \in 1..Len(arr) |-> Sign(compare(key, arr[i], arr[j]))]]
\* a consistent comparator on the elements of arr (ECMAScript, Array.prototype.sort)
Consistent(key, arr) ==
  \A m \in {SignMatrix(key, arr)} :
    \A i, j, k \in 1..Len(arr) :
      /\ (m[i][j] = 0 /\ m[j][k] = 0) => m[i][k] = 0
      /\ (m[i][j] < 0 /\ m[j][k] < 0) => m[i][k] < 0
      /\ (m[i][j] > 0 /\ m[j][k] > 0) => m[i][k] > 0

\* x put into the sorted front: after the elements that do not follow it (under a
\* consistent comparator these are a prefix of front)
InsertSorted(key, front, x) ==
  LET p == Cardinality({j \in 1..Len(front) : Sign(compare(key, front[j], x)) <= 0})
  IN  Take(front, p) \o <<x>> \o Drop(front, p)
\* the stable sort
RECURSIVE StableSort(_, _)
StableSort(key, arr) ==
  IF Len(arr) <= 1 THEN arr
  ELSE CHOOSE r \in {InsertSorted(key, front, arr[Len(arr)]) :
                       front \in {StableSort(key, Take(arr, Len(arr) - 1))}} : TRUE

PermsOf(arr) == {[i \in 1..Len(arr) |-> arr[p[i]]] : p \in Permutations(1..Len(arr))}

\* arr.sort(comparator): the stable sort under a consistent comparator; under an
\* inconsistent one the order is implementation-defined, any permutation
SortOutcomes(key, arr) ==
  IF Consistent(key, arr) THEN {StableSort(key, arr)} ELSE PermsOf(arr)

\* a filter that lets a change of 0 through
Positive_orZero(c) == IsNum(c.change24h) /\ c.change24h.n >= 0
\* arr.filter(pred): SelectSeq, with the element as the argument
Positive(c) == Gt(c.change24h, Whole(0))
Negative(c) == Lt(c.change24h, Whole(0))

\* cryptoData.filter(c => c.change24h > 0).sort(...).slice(0, 3)
GainersOf(list) == Take(StableSort("gain", SelectSeq(list, Positive)), 3)
\* cryptoData.filter(c => c.change24h < 0).sort(...).slice(0, 3)
LosersOf(list) == Take(StableSort("loss", SelectSeq(list, Negative)), 3)

(***************************************************************************)
(* The responses the dashboard specification draws from.                   *)
(***************************************************************************)
SeqsUpTo(S, n) == UNION {[1..k -> S] : k \in 0..n}

RECURSIVE JoinLines(_)
JoinLines(ls) ==
  IF ls = <<>> THEN <<>>
  ELSE IF Len(ls) = 1 THEN ls[1]
  ELSE ls[1] \o <<"\n">> \o JoinLines(Tail(ls))

SheetHeader == Chars("name,last_price,last_change_pct,market_cap,volume")
SheetLines ==
  {Chars("Ab,2,1,5,1"), Chars("b,10,-3,1,7"), Chars("C,x,0,3,3")}
\* the texts of ok responses of the spreadsheet export, with the result of
\* fetchCryptoData on each
SheetResponses ==
  {[raw |-> t, records |-> fetchSheets(t)] :
     t \in {JoinLines(<<SheetHeader>> \o ls) : ls \in SeqsUpTo(SheetLines, MaxRows)}}

NoFields == Obj([id |-> Undef])
JsonArray(rows) ==
  [isArray |-> TRUE, rows |-> rows, data |-> <<>>, coins |-> <<>>, self |-> NoFields]
JsonObject(data, coins, self) ==
  [isArray |-> FALSE, rows |-> <<>>, data |-> data, coins |-> coins, self |-> self]

HookRows ==
  {Obj([id |-> StrV(Chars("ab")), name |-> StrV(Chars("Ab")), price |-> Whole(2),
        change24h |-> NumV(650), market_cap |-> Whole(5)]),
   Obj([coin_name |-> StrV(Chars("b")), price |-> Whole(0), current_price |-> StrV(Chars("10")),
        change_24h |-> Whole(0 - 5), rank |-> Whole(7)]),
   Obj([symbol |-> StrV(Chars("C")), price_usd |-> StrV(Chars("x"))])}
\* the JSON of ok responses of the webhook, with the result of fetchCryptoData on each
HookResponses ==
  {[raw |-> j, records |-> fetchHook(j)] :
     j \in {JsonArray(rs) : rs \in SeqsUpTo(HookRows, MaxRows)}
           \cup {JsonObject(<<rs>>, <<>>, NoFields) : rs \in SeqsUpTo(HookRows, 1)}
           \cup {JsonObject(<<>>, <<rs>>, NoFields) : rs \in SeqsUpTo(HookRows, 1)}
           \cup {JsonObject(<<>>, <<>>, r) : r \in HookRows}}

(***************************************************************************)
(* The responses the specification of the normalization draws from: one    *)
(* row with every combination of present, empty and absent fields, and     *)
(* several rows.                                                           *)
(***************************************************************************)
RECURSIVE JoinCells(_)
JoinCells(cs) ==
  IF cs = <<>> THEN <<>>
  ELSE IF Len(cs) = 1 THEN cs[1]
  ELSE cs[1] \o <<",">> \o JoinCells(Tail(cs))

NormHeader ==
  Chars("coin_id,name,symbol,last_price,last_change_pct,market_cap,volume,logo_url,last_alert_timestamp")
ShortHeader == Chars("name,last_price")
NormCells ==
  {<<id, nm, Chars("B"), pr, ch, mc, Chars("3"), lg, ts>> :
     id \in {<<>>, Chars("btc")},
     nm \in {<<>>, Chars("Bit  Coin")},
     pr \in {<<>>, Chars("$1,000.5"), Chars("x")},
     ch \in {<<>>, Chars("-2")},
     mc \in {<<>>, Chars("7")},
     lg \in {<<>>, Chars("u/images/42/x"), Chars("u")},
     ts \in {<<>>, Chars("t")}}
NormLines ==
  {Chars("btc,Ab,A,2,1,5,1,,"), Chars(",b c,,,-3,,7"), Chars("x"), Chars(",,S,4")}
NormTexts ==
  {JoinLines(<<NormHeader, JoinCells(cs)>>) : cs \in NormCells}
    \cup {JoinLines(<<NormHeader>> \o ls) : ls \in SeqsUpTo(NormLines, MaxNormRows)}
    \cup {JoinLines(<<ShortHeader>> \o ls) : ls \in SeqsUpTo(NormLines, 1)}
    \cup {<<>>}
NormSheetResponses == {[raw |-> t, records |-> fetchSheets(t)] : t \in NormTexts}

NormHookRows ==
  {Obj([price |-> pr, current_price |-> cp, price_usd |-> pu, name |-> nm, coin_name |-> cn,
        rank |-> rk, market_cap_rank |-> mr, symbol |-> sy]) :
     pr \in {Undef, Whole(0), StrV(Chars("7.5"))},
     cp \in {Undef, Whole(5)},
     pu \in {Undef, Whole(3)},
     nm \in {Undef, StrV(<<>>), StrV(Chars("Ab"))},
     cn \in {Undef, StrV(Chars("c"))},
     rk \in {Undef, Whole(0), Whole(2)},
     mr \in {Undef, Whole(4)},
     sy \in {Undef, StrV(Chars("S"))}}
NormJsons ==
  {JsonArray(<<r>>) : r \in NormHookRows}
    \cup {JsonArray(rs) : rs \in SeqsUpTo(HookRows, MaxNormRows)}
    \cup {JsonObject(<<rs>>, <<>>, NoFields) : rs \in SeqsUpTo(HookRows, MaxNormRows)}
    \cup {JsonObject(<<>>, <<rs>>, NoFields) : rs \in SeqsUpTo(HookRows, MaxNormRows)}
    \cup {JsonObject(<<>>, <<>>, r) : r \in HookRows}
NormHookResponses == {[raw |-> j, records |-> fetchHook(j)] : j \in NormJsons}

(***************************************************************************)
(* The responses the specification of the price alerts draws from: rows    *)
(* whose change is at, just beyond and far from the threshold of 5.        *)
(***************************************************************************)
AlertRows ==
  {Obj([name |-> StrV(Chars("a")), change24h |-> ch]) :
     ch \in {Whole(5), Whole(0 - 5), NumV(501), Whole(0 - 7), Whole(0), StrV(Chars("x"))}}
AlertResponses ==
  {[raw |-> j, records |-> fetchHook(j)] :
     j \in {JsonArray(rs) : rs \in SeqsUpTo(AlertRows, MaxAlertRows)}}

(***************************************************************************)
(* The responses the specification of the views draws from.                *)
(***************************************************************************)
ViewHeader == Chars("name,last_price,last_change_pct,market_cap")
ViewLines ==
  {Chars("b,3,2,9"), Chars("Ab,1,-1,8"), Chars("C,4,0,"), Chars(",,7,2"), Chars("d,5,-4,1")}
\* lines among which one has a price that parseFloat makes NaN
SortLines == {Chars("Ab,2,1,5"), Chars("b,x,-3,1"), Chars("C,10,0,3")}
ViewResponses ==
  {[raw |-> t, records |-> fetchSheets(t)] :
     t \in {JoinLines(<<ViewHeader>> \o ls) :
              ls \in SeqsUpTo(ViewLines, MaxViewLen) \cup SeqsUpTo(SortLines, MaxSortRows)}}

(***************************************************************************)
(* The dashboard: the query of useQuery and the state of the component.    *)
(***************************************************************************)
VARIABLES
  version,            \* "sheets" or "webhook": which of the two source files runs
  status,             \* the query's status: "loading", "success" or "error"
  fetchStatus,        \* the query's fetchStatus: "fetching" or "idle"
  fetchFailureCount,  \* failed attempts of the current fetch
  attempts,           \* requests sent for the current fetch
  inflight,           \* HTTP requests sent and not yet answered
  apiData,            \* the query's data: <<>> while undefined, else <<the array>>
  mockData,           \* the module's mockData array
  sortBy,             \* the sort selection (spreadsheet version)
  lastEvent,          \* the step that led to this state
  lastResponse,       \* the body of the last ok response: <<>> or <<the body>>
  lastFetched,        \* what fetchCryptoData returned last: <<>> or <<the array>>
  lastUpdate,         \* the Date of lastUpdate: set at "mount", by the "step" that led
                      \* to this state, or by a step "before" it
  toast               \* the title of the toast the step that led to this state
                      \* emitted, or "none"

vars ==
  <<version, status, fetchStatus, fetchFailureCount, attempts, inflight, apiData, mockData,
    sortBy, lastEvent, lastResponse, lastFetched, lastUpdate, toast>>

Versions == {"sheets", "webhook"}
\* useQuery({ retry: 3 })
retry == 3

isLoading == status = "loading"
isError == status = "error"
isFetching == fetchStatus = "fetching"
isRefetching == isFetching /\ ~isLoading
hasData == apiData # <<>>
\* a query that gives up one retry earlier
retriesLeft_oneFewer == fetchFailureCount < retry - 1
\* the query retries a failed request while fewer than retry requests have failed
retriesLeft == fetchFailureCount < retry
\* a dashboard that falls back to the mock records whenever the query is in error
cryptoData_mockOnError == IF apiData # <<>> /\ ~isError THEN apiData[1] ELSE mockData
\* const cryptoData = apiData || mockData (sorted in place at render)
cryptoData == IF apiData # <<>> THEN apiData[1] ELSE mockData
isUsingLiveData == hasData /\ ~isError
\* a Refresh button that is never disabled
refreshDisabled_never == FALSE
\* <Button onClick={handleRefresh} disabled={isRefetching}>
refreshDisabled == isRefetching
topGainers == GainersOf(cryptoData)
\* Math.abs(v)
Abs(v) == IF ~IsNum(v) THEN NaN ELSE IF v.n < 0 THEN NumV(0 - v.n) ELSE v
\* an alert for a change of 5 or more
Significant_orEqual(crypto) == ~Lt(Abs(crypto.change24h), Whole(5)) /\ IsNum(crypto.change24h)
\* crypto => Math.abs(crypto.change24h) > 5
Significant(crypto) == Gt(Abs(crypto.change24h), Whole(5))
\* the webhook version's significantMoves, and whether its Price Alerts card is shown
significantMoves == SelectSeq(cryptoData, Significant)
alertsShown == Len(significantMoves) > 0
topLosers == LosersOf(cryptoData)

\* the render that follows a change of state: the spreadsheet version sorts the held
\* array (the query's data, or mockData) in place; the webhook version sorts nothing
Render(data, key) ==
  \E held \in {IF data # <<>> THEN data[1] ELSE mockData} :
    \E out \in (IF version = "sheets" THEN SortOutcomes(key, held) ELSE {held}) :
        IF data # <<>>
        THEN apiData' = <<out>> /\ mockData' = mockData
        ELSE apiData' = <<>> /\ mockData' = out

\* structural sharing: the query gives the component another array unless the fetched
\* one is deeply equal to the one it holds; a record stamped new Date().toISOString()
\* by this fetch equals none of an earlier fetch
dataReplaced(records) ==
  \/ ~hasData
  \/ records # apiData[1]
  \/ \E i \in 1..Len(records) : records[i].lastUpdated = StrV(NowISO)

\* an effect without its dependency array, which runs after every render
lastUpdateEffect_everyRender(replaced) ==
  lastUpdate' = IF apiData' # <<>> THEN "step"
                ELSE IF lastUpdate = "step" THEN "before" ELSE lastUpdate
\* useEffect(() => { if (apiData) setLastUpdate(new Date()) }, [apiData]), after the
\* render of a step that replaced apiData or not
lastUpdateEffect(replaced) ==
  lastUpdate' = IF replaced /\ apiData' # <<>> THEN "step"
                ELSE IF lastUpdate = "step" THEN "before" ELSE lastUpdate

\* an effect that runs after every render
errorEffectRuns_everyRender == TRUE
\* the dependencies [isError, toast] of the effect changed in the step
errorEffectRuns == isError' # isError
\* useEffect(() => { if (isError) toast({ title: "Connection Error" }) }, [isError, toast]);
\* other is the toast the step's handler emitted itself
errorToast(other) ==
  toast' = IF errorEffectRuns /\ isError' THEN "Connection Error" ELSE other

\* the query's fetch action: a fetch starts; the status falls back to "loading" only
\* while the query has no data
StartFetch ==
  /\ fetchStatus' = "fetching"
  /\ fetchFailureCount' = 0
  /\ status' = IF hasData THEN status ELSE "loading"
  /\ attempts' = 1
  /\ inflight' = inflight + 1

Init ==
  /\ version \in Versions
  /\ status = "loading"
  /\ fetchStatus = "fetching"
  /\ fetchFailureCount = 0
  /\ attempts = 1
  /\ inflight = 1
  /\ apiData = <<>>
  /\ mockData = MockRecords
  /\ sortBy = "price"
  /\ lastEvent = "mount"
  /\ lastResponse = <<>>
  /\ lastFetched = <<>>
  /\ lastUpdate = "mount"
  /\ toast = "none"

\* a timer that stops once the query is in error
RefetchInterval_stopsOnError ==
  /\ fetchStatus = "idle"
  /\ ~isError
  /\ StartFetch
  /\ lastEvent' = "interval"
  /\ Render(apiData, sortBy)
  /\ UNCHANGED <<version, sortBy, lastResponse, lastFetched>>
  /\ lastUpdateEffect(FALSE)
  /\ errorToast("none")

\* refetchInterval: 30000.  The timer fires; a fetch starts unless one is running
RefetchInterval ==
  /\ fetchStatus = "idle"
  /\ StartFetch
  /\ lastEvent' = "interval"
  /\ Render(apiData, sortBy)
  /\ UNCHANGED <<version, sortBy, lastResponse, lastFetched>>
  /\ lastUpdateEffect(FALSE)
  /\ errorToast("none")

\* a click on Refresh: refetch() cancels a running refetch of a query that has data
\* and starts another request; it joins the running fetch of a query without data
handleRefresh ==
  /\ ~refreshDisabled
  /\ IF fetchStatus = "idle"
     THEN StartFetch /\ lastEvent' = "refresh"
     ELSE IF hasData
     THEN /\ inflight' = inflight + 1
          /\ fetchFailureCount' = 0
          /\ attempts' = 1
          /\ lastEvent' = "refresh"
          /\ UNCHANGED <<status, fetchStatus>>
     ELSE /\ lastEvent' = "joined"
          /\ UNCHANGED <<status, fetchStatus, fetchFailureCount, attempts, inflight>>
  /\ Render(apiData, sortBy)
  /\ UNCHANGED <<version, sortBy, lastResponse, lastFetched>>
  /\ lastUpdateEffect(FALSE)
  /\ errorToast("Refreshing data...")

\* a request fails (no answer, a status that is not ok, a body that does not parse)
FetchFail ==
  /\ fetchStatus = "fetching"
  /\ inflight >= 1
  /\ IF inflight > 1
     THEN /\ inflight' = inflight - 1
          /\ lastEvent' = "stale"
          /\ UNCHANGED <<status, fetchStatus, fetchFailureCount, apiData, mockData>>
     ELSE IF retriesLeft
     THEN /\ fetchFailureCount' = fetchFailureCount + 1
          /\ inflight' = 0
          /\ lastEvent' = "fail"
          /\ UNCHANGED <<status, fetchStatus, apiData, mockData>>
     ELSE /\ status' = "error"
          /\ fetchStatus' = "idle"
          /\ fetchFailureCount' = fetchFailureCount + 1
          /\ inflight' = 0
          /\ lastEvent' = "error"
          /\ Render(apiData, sortBy)
  /\ UNCHANGED <<version, attempts, sortBy, lastResponse, lastFetched>>
  /\ lastUpdateEffect(FALSE)
  /\ errorToast("none")

\* the retry delay has passed: the next attempt of the fetch is sent
RetryFetch ==
  /\ fetchStatus = "fetching"
  /\ inflight = 0
  /\ inflight' = 1
  /\ attempts' = attempts + 1
  /\ lastEvent' = "retry"
  /\ UNCHANGED <<version, status, fetchStatus, fetchFailureCount, apiData, mockData, sortBy,
                 lastResponse, lastFetched>>
  /\ lastUpdateEffect(FALSE)
  /\ errorToast("none")

\* fetchCryptoData resolves with the records of the response r
Resolve(r) ==
  /\ fetchStatus = "fetching"
  /\ inflight >= 1
  /\ IF inflight > 1
     THEN /\ inflight' = inflight - 1
          /\ lastEvent' = "stale"
          /\ UNCHANGED <<status, fetchStatus, fetchFailureCount, apiData, mockData,
                         lastResponse, lastFetched>>
     ELSE /\ status' = "success"
          /\ fetchStatus' = "idle"
          /\ fetchFailureCount' = 0
          /\ inflight' = 0
          /\ lastEvent' = "success"
          /\ lastResponse' = <<r.raw>>
          /\ lastFetched' = <<r.records>>
          /\ Render(<<r.records>>, sortBy)
  /\ UNCHANGED <<version, attempts, sortBy>>
  /\ lastUpdateEffect(inflight = 1 /\ dataReplaced(r.records))
  /\ errorToast("none")

FetchSuccess ==
  \E r \in (IF version = "sheets" THEN SheetResponses ELSE HookResponses) : Resolve(r)

\* <Select value={sortBy} onValueChange={value => setSortBy(value)}>
setSortBy(value) ==
  /\ version = "sheets"
  /\ value # sortBy
  /\ sortBy' = value
  /\ lastEvent' = "sort"
  /\ Render(apiData, value)
  /\ UNCHANGED <<version, status, fetchStatus, fetchFailureCount, attempts, inflight,
                 lastResponse, lastFetched>>
  /\ lastUpdateEffect(FALSE)
  /\ errorToast("none")

SelectSort == \E value \in SortKeys : setSortBy(value)

Next ==
  \/ RefetchInterval
  \/ handleRefresh
  \/ FetchFail
  \/ RetryFetch
  \/ FetchSuccess
  \/ SelectSort

Spec == Init /\ [][Next]_vars

\* the first fetch of a dashboard, resolving with any response of the normalization's
\* domain
FetchNormalized ==
  \E r \in (IF version = "sheets" THEN NormSheetResponses ELSE NormHookResponses) : Resolve(r)

SpecNorm == Init /\ [][FetchNormalized]_vars

\* the first fetch of a dashboard, resolving with any response of the views' domain
FetchViewed == version = "sheets" /\ \E r \in ViewResponses : Resolve(r)

NextView ==
  \/ FetchViewed
  \/ SelectSort

SpecView == Init /\ [][NextView]_vars

\* the first fetch of a webhook dashboard, resolving with any response of the price
\* alerts' domain
FetchAlerted == version = "webhook" /\ \E r \in AlertResponses : Resolve(r)

SpecAlerts == Init /\ [][FetchAlerted]_vars

\* the timer keeps firing, a retry is sent once its delay has passed, and every
\* request is answered
FairSpec ==
  /\ Spec
  /\ WF_vars(RefetchInterval)
  /\ WF_vars(RetryFetch)
  /\ WF_vars(FetchFail \/ FetchSuccess)

(***************************************************************************)
(* Properties of the dashboard.                                            *)
(***************************************************************************)
Count(arr, x) == Cardinality({i \in 1..Len(arr) : arr[i] = x})
\* the same records, each as many times, in whatever order
SameRecords(a, b) ==
  /\ Len(a) = Len(b)
  /\ \A x \in Range(a) \cup Range(b) : Count(a, x) = Count(b, x)

\* C1: the records displayed are those of the most recent successful fetch once a
\* fetch has succeeded, and until then exactly the three mock records
C1_DisplayedIsLastFetchedOrMock ==
  IF lastFetched # <<>>
  THEN SameRecords(cryptoData, lastFetched[1])
  ELSE /\ cryptoData = MockRecords
       /\ [i \in 1..3 |-> cryptoData[i].id.s] =
            <<Chars("bitcoin"), Chars("ethereum"), Chars("solana")>>
\* a refetch has failed for good after a fetch that delivered records
C1_Witness == isError /\ lastFetched # <<>> /\ Len(lastFetched[1]) > 0

\* C2: in the error state the records displayed are the mock records
C2_ErrorShowsMock == isError => SameRecords(cryptoData, MockRecords)

\* C3: the error state is entered only by the failure of the fourth request of a
\* fetch (the first attempt and 3 retries), and a request that succeeds leaves the
\* fetched records held and no error shown
C3_RetriedThreeTimes ==
  [][/\ (~isError /\ isError') => (attempts = 4 /\ inflight = 1 /\ lastEvent' = "error")
     /\ lastEvent' = "error" => (attempts = 4 /\ isError')
     /\ lastEvent' = "success" =>
          (~isError' /\ apiData' # <<>> /\ SameRecords(apiData'[1], lastFetched'[1]))]_vars
\* the fourth request of a fetch has failed
C3_Witness == lastEvent = "error" /\ isError /\ attempts = 4 /\ fetchFailureCount = 4

\* C4: a new fetch is started again and again, from every state
C4_RefetchNeverStops == []<>(lastEvent \in {"interval", "refresh"})
\* the timer has started a refetch from the error state
C4_Witness == lastEvent = "interval" /\ isError /\ isFetching

\* C5: at most one request is in flight, and the Refresh button is disabled while a
\* refetch is in flight
C5_AtMostOneInFlight ==
  /\ inflight <= 1
  /\ (isFetching /\ hasData) => refreshDisabled
\* a click on Refresh during the initial load joined the fetch in flight
C5_Witness == lastEvent = "joined" /\ inflight = 1 /\ isFetching

\* C6: the held array changes only by being replaced when a fetch completes
C6_HeldArrayOnlyReplaced == [][cryptoData' # cryptoData => lastEvent' = "success"]_vars
\* what the displayed list is computed from
SourceArray == IF lastFetched # <<>> THEN lastFetched[1] ELSE MockRecords
\* a is to be displayed strictly before b under the sort selection key
Precedes(key, a, b) ==
  CASE key = "name" -> localeCompare(a.name.s, b.name.s) < 0
    [] key = "marketCap" -> Gt(a.marketCap, b.marketCap)
    [] key = "volume24h" -> Gt(a.volume24h, b.volume24h)
    [] OTHER -> Gt(a.price, b.price)

\* C7: the displayed list is a permutation of the source array in the order of the
\* selected key (price, market cap and volume descending, name ascending)
C7_SortedPermutation ==
  version = "sheets" =>
    /\ SameRecords(cryptoData, SourceArray)
    /\ \A i, j \in 1..Len(cryptoData) : i < j => ~Precedes(sortBy, cryptoData[j], cryptoData[i])

PositiveIdx == {i \in 1..Len(cryptoData) : IsNum(cryptoData[i].change24h) /\ cryptoData[i].change24h.n > 0}
NegativeIdx == {i \in 1..Len(cryptoData) : IsNum(cryptoData[i].change24h) /\ cryptoData[i].change24h.n < 0}
Least(a, b) == IF a < b THEN a ELSE b
\* bucket holds min(3, |idx|) of the displayed records at idx, in the order of dir
\* (1: descending change, -1: ascending), and no record left out goes before its last
IsTopBucket(bucket, idx, dir) ==
  /\ Len(bucket) = Least(3, Cardinality(idx))
  /\ \A k \in 1..Len(bucket) : bucket[k] \in {cryptoData[i] : i \in idx}
  /\ \A x \in Range(bucket) : Count(bucket, x) <= Count(cryptoData, x)
  /\ \A k \in 1..(Len(bucket) - 1) :
       dir * bucket[k].change24h.n >= dir * bucket[k + 1].change24h.n
  /\ \A i \in idx :
       Count(bucket, cryptoData[i]) < Count(cryptoData, cryptoData[i]) =>
         /\ Len(bucket) = 3
         /\ dir * cryptoData[i].change24h.n <= dir * bucket[3].change24h.n

\* C8: Top Gainers are the (at most 3) displayed records of greatest positive change,
\* greatest first, Top Losers the (at most 3) of most negative change, most negative
\* first; the buckets are disjoint and a record of change 0 is in neither
C8_TopBuckets ==
  version = "sheets" =>
    /\ IsTopBucket(topGainers, PositiveIdx, 1)
    /\ IsTopBucket(topLosers, NegativeIdx, 0 - 1)
    /\ Range(topGainers) \cap Range(topLosers) = {}
    /\ \A i \in 1..Len(cryptoData) :
         cryptoData[i].change24h = Whole(0) =>
           cryptoData[i] \notin Range(topGainers) \cup Range(topLosers)
\* four gainers of two different changes, of which three are shown
C8_Witness ==
  /\ version = "sheets"
  /\ lastEvent = "success"
  /\ Cardinality(PositiveIdx) = 4
  /\ Len(topGainers) = 3
  /\ topGainers[1].change24h # topGainers[3].change24h

\* the rows of the last response, as the normalization reads them
ResponseRows ==
  IF version = "sheets" THEN parseCSV(lastResponse[1]) ELSE cryptoArray(lastResponse[1])
\* the lines after the header line of a text
DataLines(text) == Cardinality({i \in 1..Len(Trim(text)) : Trim(text)[i] = "\n"})
\* every field of names is missing from the row or empty
MissingOrEmpty(row, names) == \A f \in names : Get(row, f) \in {Undef, StrV(<<>>)}
\* the field names a record field is read from
NameFields == IF version = "sheets" THEN {"name"} ELSE {"name", "coin_name"}
SymbolFields == IF version = "sheets" THEN {"symbol"} ELSE {"symbol", "coin_symbol"}
PriceFields ==
  IF version = "sheets" THEN {"last_price"} ELSE {"price", "current_price", "price_usd"}
ChangeFields ==
  IF version = "sheets" THEN {"last_change_pct"}
  ELSE {"change24h", "price_change_percentage_24h", "change_24h"}
CapFields ==
  IF version = "sheets" THEN {"market_cap"} ELSE {"market_cap", "marketCap", "market_cap_usd"}
VolumeFields ==
  IF version = "sheets" THEN {"volume"} ELSE {"volume24h", "total_volume", "volume_24h"}
RankFields == IF version = "sheets" THEN {"logo_url"} ELSE {"rank", "market_cap_rank"}

\* C9: the normalization yields one record per row, in the order of the rows, each
\* with the ten fields, a missing or empty field taking its default
C9_OneRecordPerRow ==
  lastFetched # <<>> =>
    LET recs == lastFetched[1]
        rows == ResponseRows
    IN  /\ Len(recs) = Len(rows)
        /\ version = "sheets" => Len(recs) = DataLines(lastResponse[1])
        /\ \A i \in 1..Len(recs) :
             /\ DOMAIN recs[i] = CryptoFields
             /\ \A f \in CryptoFields : recs[i][f] # Undef
             /\ Truthy(Get(rows[i], "name")) => recs[i].name = Get(rows[i], "name")
             /\ MissingOrEmpty(rows[i], NameFields) => recs[i].name = StrV(Chars("Unknown"))
             /\ MissingOrEmpty(rows[i], SymbolFields) => recs[i].symbol = StrV(Chars("N/A"))
             /\ MissingOrEmpty(rows[i], PriceFields) => recs[i].price = Whole(0)
             /\ MissingOrEmpty(rows[i], ChangeFields) => recs[i].change24h = Whole(0)
             /\ MissingOrEmpty(rows[i], CapFields) => recs[i].marketCap = Whole(0)
             /\ MissingOrEmpty(rows[i], VolumeFields) => recs[i].volume24h = Whole(0)
             /\ MissingOrEmpty(rows[i], RankFields) => recs[i].rank = Whole(i)
\* the second of two rows has neither a name nor anything a rank is read from
C9_Witness ==
  /\ lastFetched # <<>>
  /\ Len(lastFetched[1]) >= 2
  /\ MissingOrEmpty(ResponseRows[2], NameFields \cup RankFields)
  /\ Truthy(Get(ResponseRows[1], "name"))

\* the first of the fields names that the row carries, else the default
RECURSIVE FirstPresent(_, _, _)
FirstPresent(row, names, default) ==
  IF names = <<>> THEN default
  ELSE IF Get(row, names[1]) # Undef THEN Get(row, names[1])
  ELSE FirstPresent(row, Tail(names), default)

\* C10: in the webhook normalization each record field is read from the first of its
\* alternative field names that the row carries, else is the default
C10_FirstPresentAlternative ==
  (version = "webhook" /\ lastFetched # <<>>) =>
    \A i \in 1..Len(lastFetched[1]) :
      LET rec == lastFetched[1][i]
          row == ResponseRows[i]
      IN  /\ rec.price =
               ParseFloat(FirstPresent(row, <<"price", "current_price", "price_usd">>, Whole(0)))
          /\ rec.change24h =
               ParseFloat(FirstPresent(row, <<"change24h", "price_change_percentage_24h",
                                              "change_24h">>, Whole(0)))
          /\ rec.marketCap =
               ParseFloat(FirstPresent(row, <<"market_cap", "marketCap", "market_cap_usd">>,
                                       Whole(0)))
          /\ rec.volume24h =
               ParseFloat(FirstPresent(row, <<"volume24h", "total_volume", "volume_24h">>,
                                       Whole(0)))
          /\ rec.name = FirstPresent(row, <<"name", "coin_name">>, StrV(Chars("Unknown")))
          /\ rec.symbol = FirstPresent(row, <<"symbol", "coin_symbol">>, StrV(Chars("N/A")))
          /\ rec.rank = ParseInt(FirstPresent(row, <<"rank", "market_cap_rank">>, Whole(i)))

\* C11: the price, the market cap and the 24-hour volume of every displayed record
\* are numbers greater than or equal to 0
C11_NonNegativeNumbers ==
  \A i \in 1..Len(cryptoData) :
    \A f \in {"price", "marketCap", "volume24h"} :
      IsNum(cryptoData[i][f]) /\ cryptoData[i][f].n >= 0

\* the fetch that completes in the step delivers data that is new to the dashboard
DeliversNewData ==
  /\ lastEvent' = "success"
  /\ \/ apiData = <<>>
     \/ lastFetched'[1] # apiData[1]
     \/ \E i \in 1..Len(lastFetched'[1]) : lastFetched'[1][i].lastUpdated = StrV(NowISO)

\* C12: the 'Last updated' time is set by exactly the steps in which a successful
\* fetch delivers new data; a failed request, a retry, a click on Refresh and a
\* change of the sort selection leave it as it is
C12_LastUpdateOnNewData ==
  [][/\ (lastUpdate' = "step") <=> DeliversNewData
     /\ lastEvent' \in {"fail", "error", "retry", "refresh", "joined", "interval", "sort", "stale"}
          => lastUpdate' # "step"]_vars
\* a request sent as a retry, after a failed one left the time as it was, has
\* delivered records and set the time
C12_Witness ==
  /\ lastUpdate = "step"
  /\ lastEvent = "success"
  /\ Len(cryptoData) > 0
  /\ attempts > 1

\* C13: the 'Connection Error' toast is emitted by exactly the steps in which
\* isError goes from false to true
C13_ErrorToastOnEntry ==
  [][(toast' = "Connection Error") <=> (~isError /\ isError')]_vars
\* the dashboard has entered the error state while it held fetched records
C13_Witness == toast = "Connection Error" /\ isError /\ hasData

\* the lines of the trimmed text of the last response
TextLines == Split(Trim(lastResponse[1]), "\n")
\* the j-th of the comma-separated values of a line, without the blanks around it and
\* without quotes
ValueOf(line, j) == RemoveAll(Trim(Split(line, ",")[j]), {"\""})
ValueCount(line) == Len(Split(line, ","))

\* C14: parseCSV returns no object for a text of fewer than 2 lines, and otherwise
\* one object per line after the header line, in order, whose keys are the header
\* names, with '' for a value the line lacks and nothing for a value beyond the headers
C14_ParseCSVShape ==
  (version = "sheets" /\ lastResponse # <<>>) =>
    LET objs == parseCSV(lastResponse[1])
        head == TextLines[1]
        names == {ValueOf(head, j) : j \in 1..ValueCount(head)}
    IN  IF DataLines(lastResponse[1]) = 0 THEN objs = <<>>
        ELSE /\ Len(objs) = DataLines(lastResponse[1])
             /\ \A i \in 1..Len(objs) :
                  /\ DOMAIN objs[i] = names
                  /\ \A j \in 1..ValueCount(head) :
                       (\A k \in (j + 1)..ValueCount(head) : ValueOf(head, k) # ValueOf(head, j)) =>
                         objs[i][ValueOf(head, j)] =
                           IF j <= ValueCount(TextLines[i + 1])
                           THEN StrV(ValueOf(TextLines[i + 1], j)) ELSE StrV(<<>>)
\* a text with a line after the header that has fewer values than there are headers
C14_Witness ==
  /\ version = "sheets"
  /\ lastResponse # <<>>
  /\ DataLines(lastResponse[1]) >= 1
  /\ \E i \in 2..Len(TextLines) : ValueCount(TextLines[i]) < ValueCount(TextLines[1])

\* C15: in the spreadsheet normalization the id of a record is the row's coin_id when
\* that is not empty, else the row's name in lower case with every run of white space
\* replaced by a hyphen when the name is not empty, else crypto-<i>, i counted from 0
C15_SheetId ==
  (version = "sheets" /\ lastFetched # <<>>) =>
    \A i \in 1..Len(lastFetched[1]) :
      LET row == ResponseRows[i]
          coinId == Get(row, "coin_id")
          name == Get(row, "name")
      IN  lastFetched[1][i].id =
            IF coinId \notin {Undef, StrV(<<>>)} THEN coinId
            ELSE IF name \notin {Undef, StrV(<<>>)}
            THEN StrV(HyphenateSpaces(ToLowerCase(name.s)))
            ELSE StrV(Chars("crypto-") \o IntToStr(i - 1))
\* a row after the first has neither coin_id nor name
C15_Witness ==
  /\ version = "sheets"
  /\ lastFetched # <<>>
  /\ \E i \in 1..Len(lastFetched[1]) :
       /\ i > 1
       /\ MissingOrEmpty(ResponseRows[i], {"coin_id", "name"})
       /\ lastFetched[1][i].id = StrV(Chars("crypto-") \o IntToStr(i - 1))

\* the positions of the displayed records whose change is beyond 5 either way
AlertIdx ==
  {i \in 1..Len(cryptoData) :
     /\ IsNum(cryptoData[i].change24h)
     /\ (cryptoData[i].change24h.n > 500 \/ cryptoData[i].change24h.n < 0 - 500)}

\* C16: in the webhook version the Price Alerts are exactly the displayed records whose
\* change is greater than 5 or less than -5, in the order of the displayed list, and
\* the card is shown exactly when there is one
C16_PriceAlerts ==
  version = "webhook" =>
    /\ Len(significantMoves) = Cardinality(AlertIdx)
    /\ \A k \in 1..Len(significantMoves) :
         significantMoves[k] =
           cryptoData[CHOOSE i \in AlertIdx : Cardinality({j \in AlertIdx : j <= i}) = k]
    /\ alertsShown <=> AlertIdx # {}
\* records of change 5 and -5, which are no alerts, between records that are
C16_Witness ==
  /\ version = "webhook"
  /\ lastEvent = "success"
  /\ Len(cryptoData) = 3
  /\ cryptoData[1].change24h = NumV(501)
  /\ cryptoData[2].change24h \in {Whole(5), Whole(0 - 5)}
  /\ cryptoData[3].change24h = Whole(0 - 7)
  /\ Len(significantMoves) = 2
====
